---- MODULE Spec2Model ----
(***************************************************************************)
(* The Mini-Lua lexer (mini-lua-cpp/src/main.cpp) as a state machine.      *)
(*                                                                         *)
(* A character is a one-character string; the source text is a sequence of *)
(* characters.  Cursors are 0-based as in the code, so the character at    *)
(* cursor c is source[c + 1].  The character '\0' is written NUL.          *)
(*                                                                         *)
(* One step is one iteration of one loop of the code: an iteration of the  *)
(* driver loop of scan_tokens up to the point where scan_token either      *)
(* returns or enters the loop of a sub-scanner, or one iteration of the    *)
(* loop of scan_comment, scan_number, scan_string or scan_name.  The step  *)
(* in which scan_token returns also runs the rest of the driver loop body  *)
(* (the trace line and the push_back).                                     *)
(***************************************************************************)
EXTENDS Integers, Sequences, FiniteSets, TLC

VARIABLES source, current, start, token_list, trace, pc, err,
          str_tag, string, hex, floating, science, signed_power, number_power,
          reserved_table, run, first_run, impl

\* reserved_table is the static map Lexer::reserved_words as it stands, which
\* outlives a Lexer; run counts the Lexer instances constructed on the buffer
\* and first_run keeps what the first of them produced.  impl names the
\* implementation whose Lexer runs: "cpp" (main.cpp) or "csharp" (Program.cs).
vars == <<source, current, start, token_list, trace, pc, err,
          str_tag, string, hex, floating, science, signed_power, number_power,
          reserved_table, run, first_run, impl>>

\* Longest source text drawn by Init.
MaxLen == 4

\* Capacity of the string scanner's accumulator (the memory the process may use).
MaxStr == 6

NUL == "NUL"

(***************************************************************************)
(* Character classification (the "C" locale).                              *)
(***************************************************************************)
LowerLetters == <<"a","b","c","d","e","f","g","h","i","j","k","l","m",
                  "n","o","p","q","r","s","t","u","v","w","x","y","z">>

UpperLetters == <<"A","B","C","D","E","F","G","H","I","J","K","L","M",
                  "N","O","P","Q","R","S","T","U","V","W","X","Y","Z">>

DigitChars == <<"0","1","2","3","4","5","6","7","8","9">>

Range(s) == {s[i] : i \in DOMAIN s}

isdigit(ch) == ch \in Range(DigitChars)

isalpha(ch) == ch \in Range(LowerLetters) \cup Range(UpperLetters)

isalnum(ch) == isalpha(ch) \/ isdigit(ch)

isspace(ch) == ch \in {" ", "\t", "\n", "\r", "\f", "VT"}

tolower(ch) ==
    IF ch \in Range(UpperLetters)
    THEN LowerLetters[CHOOSE i \in DOMAIN UpperLetters : UpperLetters[i] = ch]
    ELSE ch

\* 'a' <= tolower(ch) && tolower(ch) <= 'f'
\* Mutant of is_hex_letter: tolower is forgotten, capitals are no digits.
is_hex_letter_lower_case(ch) == ch \in {"a","b","c","d","e","f"}

\* scan_number, line 338: tolower(next) between 'a' and 'f'.
is_hex_letter(ch) == tolower(ch) \in {"a","b","c","d","e","f"}

is_name_char(ch, first) ==
    IF first /\ (isalpha(ch) \/ ch = "_") THEN TRUE
    ELSE IF isalnum(ch) \/ ch = "_" THEN TRUE
    ELSE FALSE

(***************************************************************************)
(* The static tables.                                                      *)
(***************************************************************************)
reserved_words ==
    (<<"a","n","d">> :> "And") @@
    (<<"b","r","e","a","k">> :> "Break") @@
    (<<"d","o">> :> "Do") @@
    (<<"e","l","s","e">> :> "Else") @@
    (<<"e","l","s","e","i","f">> :> "ElseIf") @@
    (<<"e","n","d">> :> "End") @@
    (<<"f","a","l","s","e">> :> "False") @@
    (<<"f","o","r">> :> "For") @@
    (<<"f","u","n","c","t","i","o","n">> :> "Function") @@
    (<<"i","f">> :> "If") @@
    (<<"i","n">> :> "In") @@
    (<<"l","o","c","a","l">> :> "Local") @@
    (<<"n","i","l">> :> "Nil") @@
    (<<"n","o","t">> :> "Not") @@
    (<<"o","r">> :> "Or") @@
    (<<"r","e","p","e","a","t">> :> "Repeat") @@
    (<<"r","e","t","u","r","n">> :> "Return") @@
    (<<"t","h","e","n">> :> "Then") @@
    (<<"t","r","u","e">> :> "True") @@
    (<<"u","n","t","i","l">> :> "Until") @@
    (<<"w","h","i","l","e">> :> "While")

\* The cases of scan_token's switch that return a symbol without lookahead.
single_symbols ==
    ("+" :> "Add") @@ ("*" :> "Multiply") @@ ("/" :> "Divide") @@
    ("%" :> "Mod") @@ ("^" :> "Power") @@ ("#" :> "Length") @@
    ("(" :> "LeftParen") @@ (")" :> "RightParen") @@
    ("{" :> "LeftBrace") @@ ("}" :> "RightBrace") @@
    ("[" :> "LeftBracket") @@ ("]" :> "RightBracket") @@
    (";" :> "Semicolon") @@ (":" :> "Colon") @@ ("," :> "Comma")

\* The cases that return one symbol when '=' follows and another otherwise.
equal_symbols ==
    ("=" :> <<"Equal", "Assign">>) @@
    (">" :> <<"GreaterEqual", "Greater">>) @@
    ("<" :> <<"LessEqual", "Less">>)

(***************************************************************************)
(* Tokens.                                                                 *)
(***************************************************************************)
TokenReserved(v) == [kind |-> "Reserved", value |-> v]
TokenNumber(v)   == [kind |-> "Number",   value |-> v]
TokenString(v)   == [kind |-> "String",   value |-> v]
TokenSymbol(v)   == [kind |-> "Symbol",   value |-> v]
TokenName(v)     == [kind |-> "Name",     value |-> v]
TokenComment     == [kind |-> "Comment",  value |-> "none"]
TokenEOL         == [kind |-> "EOL",      value |-> "none"]
TokenEOF         == [kind |-> "EOF",      value |-> "none"]

(***************************************************************************)
(* Cursor primitives, as functions of the cursor c.  advance() is the pair *)
(* advance(c), the character it returns, and advanced(c), the cursor it    *)
(* leaves.                                                                 *)
(***************************************************************************)
is_at_end(c) == c >= Len(source)

advance(c) == IF is_at_end(c) THEN NUL ELSE source[c + 1]

\* Mutant of advanced: the cursor moves on although the input has ended.
advanced_past_end(c) == c + 1

advanced(c) == IF is_at_end(c) THEN c ELSE c + 1

previous(c) == IF c = 0 THEN NUL ELSE source[c]

peek(c) == IF is_at_end(c) THEN NUL ELSE source[c + 1]

\* Mutant of align_pointer: the lexeme is aligned after its first character.
align_pointer_late(c) == IF c >= Len(source) THEN c ELSE c + 1

\* align_pointer, line 417: the start of the lexeme when the cursor is at c.
align_pointer(c) == c

\* Mutant of match_char: the comparison with the target is dropped.
match_char_unchecked(c, target) == ~is_at_end(c)

match_char(c, target) ==
    IF is_at_end(c) THEN FALSE
    ELSE IF peek(c) = target THEN TRUE ELSE FALSE

\* Mutant of matched: a matching character is recognised but not consumed.
matched_without_advance(c, target) == c

\* match_char, lines 458-469: the cursor match_char(target) leaves.
matched(c, target) == IF match_char(c, target) THEN advanced(c) ELSE c

extract_word(s, c) == SubSeq(source, s + 1, c)

\* Mutant of skip_whitespace: a newline is skipped like any other blank.
RECURSIVE skip_whitespace_and_newlines(_)
skip_whitespace_and_newlines(c) ==
    IF isspace(peek(c)) THEN skip_whitespace_and_newlines(advanced(c)) ELSE c

RECURSIVE skip_whitespace(_)
skip_whitespace(c) ==
    IF peek(c) # "\n" /\ isspace(peek(c)) THEN skip_whitespace(advanced(c)) ELSE c

(***************************************************************************)
(* Number conversion.  A Number token's double is written as the decimal   *)
(* it was converted from, [m |-> mantissa, e |-> power of ten], with no    *)
(* trailing zero in m (zero is [m |-> 0, e |-> 0]): two lexemes that       *)
(* denote the same number give the same value.  A conversion returns       *)
(* [ok |-> TRUE, value |-> ..] or, where the library throws,               *)
(* [ok |-> FALSE, value |-> the exception].                                *)
(***************************************************************************)
RECURSIVE canonical(_, _)
canonical(m, e) ==
    IF m = 0 THEN [m |-> 0, e |-> 0]
    ELSE IF m % 10 = 0 THEN canonical(m \div 10, e + 1)
    ELSE [m |-> m, e |-> e]

digit_value(ch) ==
    IF isdigit(ch)
    THEN (CHOOSE i \in DOMAIN DigitChars : DigitChars[i] = ch) - 1
    ELSE (CHOOSE i \in 1..6 : LowerLetters[i] = tolower(ch)) + 9

is_digit_of(ch, base) ==
    IF base = 16 THEN isdigit(ch) \/ is_hex_letter(ch) ELSE isdigit(ch)

\* The longest prefix of w made of digits of the base.
RECURSIVE digit_prefix(_, _)
digit_prefix(w, base) ==
    IF w # <<>> /\ is_digit_of(Head(w), base)
    THEN <<Head(w)>> \o digit_prefix(Tail(w), base)
    ELSE <<>>

RECURSIVE digits_value(_, _, _)
digits_value(w, base, acc) ==
    IF w = <<>> THEN acc
    ELSE digits_value(Tail(w), base, acc * base + digit_value(Head(w)))

\* std::stoull(w, nullptr, base) on a word without sign, blank or prefix.
stoull(w, base) ==
    LET ds == digit_prefix(w, base)
    IN  IF ds = <<>> THEN [ok |-> FALSE, value |-> "invalid_argument"]
        ELSE [ok |-> TRUE, value |-> canonical(digits_value(ds, base, 0), 0)]

\* std::stod(w): digits [. digits] [(e|E) [sign] digits], the longest such prefix.
stod(w) ==
    LET ip    == digit_prefix(w, 10)
        r1    == SubSeq(w, Len(ip) + 1, Len(w))
        dot   == r1 # <<>> /\ Head(r1) = "."
        fp    == IF dot THEN digit_prefix(Tail(r1), 10) ELSE <<>>
        r2    == IF dot THEN SubSeq(r1, Len(fp) + 2, Len(r1)) ELSE r1
        mark  == r2 # <<>> /\ Head(r2) \in {"e", "E"}
        r3    == IF mark THEN Tail(r2) ELSE <<>>
        sign  == r3 # <<>> /\ Head(r3) \in {"+", "-"}
        ep    == digit_prefix(IF sign THEN Tail(r3) ELSE r3, 10)
        neg   == sign /\ Head(r3) = "-"
        ex    == IF ep = <<>> THEN 0
                 ELSE IF neg THEN 0 - digits_value(ep, 10, 0)
                 ELSE digits_value(ep, 10, 0)
    IN  IF ip = <<>> /\ fp = <<>> THEN [ok |-> FALSE, value |-> "invalid_argument"]
        ELSE [ok |-> TRUE,
              value |-> canonical(digits_value(ip \o fp, 10, 0), ex - Len(fp))]

\* Mutant of number_value: a hexadecimal lexeme is converted in base 10.
number_value_in_base_ten(word, is_floating, is_hex) ==
    IF is_floating THEN stod(word) ELSE stoull(word, 10)

\* scan_number, lines 358-367: the conversion of the lexeme.
number_value(word, is_floating, is_hex) ==
    IF is_floating THEN stod(word)
    ELSE IF is_hex THEN stoull(SubSeq(word, 3, Len(word)), 16)
    ELSE stoull(word, 10)

(***************************************************************************)
(* Program.cs, where it is not main.cpp line for line: the conversion of a *)
(* number lexeme.  The .NET parsers read the whole word or throw, where    *)
(* the C++ ones read its longest numeric prefix.                           *)
(***************************************************************************)
\* double.Parse(w), under a culture whose decimal separator is the point:
\* digits [. digits] [(e|E) [sign] digits], the whole of w.
double_Parse(w) ==
    LET ip    == digit_prefix(w, 10)
        r1    == SubSeq(w, Len(ip) + 1, Len(w))
        dot   == r1 # <<>> /\ Head(r1) = "."
        fp    == IF dot THEN digit_prefix(Tail(r1), 10) ELSE <<>>
        r2    == IF dot THEN SubSeq(r1, Len(fp) + 2, Len(r1)) ELSE r1
        mark  == r2 # <<>> /\ Head(r2) \in {"e", "E"}
        r3    == IF mark THEN Tail(r2) ELSE <<>>
        sign  == r3 # <<>> /\ Head(r3) \in {"+", "-"}
        ep    == digit_prefix(IF sign THEN Tail(r3) ELSE r3, 10)
        neg   == sign /\ Head(r3) = "-"
        ex    == IF ep = <<>> THEN 0
                 ELSE IF neg THEN 0 - digits_value(ep, 10, 0)
                 ELSE digits_value(ep, 10, 0)
        used  == Len(ip) + (IF dot THEN 1 + Len(fp) ELSE 0)
                 + (IF mark THEN 1 + (IF sign THEN 1 ELSE 0) + Len(ep) ELSE 0)
    IN  IF (ip = <<>> /\ fp = <<>>) \/ (mark /\ ep = <<>>) \/ used # Len(w)
        THEN [ok |-> FALSE, value |-> "FormatException"]
        ELSE [ok |-> TRUE,
              value |-> canonical(digits_value(ip \o fp, 10, 0), ex - Len(fp))]

\* ulong.Parse(w): decimal digits, the whole of w.
ulong_Parse(w) ==
    IF w = <<>> \/ digit_prefix(w, 10) # w
    THEN [ok |-> FALSE, value |-> "FormatException"]
    ELSE [ok |-> TRUE, value |-> canonical(digits_value(w, 10, 0), 0)]

\* Convert.ToUInt64(w, 16): hexadecimal digits, the whole of w.
Convert_ToUInt64(w) ==
    IF w = <<>> THEN [ok |-> FALSE, value |-> "ArgumentOutOfRangeException"]
    ELSE IF digit_prefix(w, 16) # w THEN [ok |-> FALSE, value |-> "FormatException"]
    ELSE [ok |-> TRUE, value |-> canonical(digits_value(w, 16, 0), 0)]

\* ScanNumber, Program.cs lines 193-202: the conversion of the lexeme.
ScanNumber_value(word, is_floating, is_hex) ==
    IF is_floating THEN double_Parse(word)
    ELSE IF is_hex THEN Convert_ToUInt64(SubSeq(word, 3, Len(word)))
    ELSE ulong_Parse(word)

(***************************************************************************)
(* The driver loop's body, and the ways a step ends.                       *)
(***************************************************************************)
\* scan_tokens, lines 198-217: the label, or the logic_error it throws.
token_type(token) ==
    IF token.kind = "Reserved" THEN "[RESERVED]"
    ELSE IF token.kind = "Number" THEN "[NUMBER]"
    ELSE IF token.kind = "String" THEN "[STRING]"
    ELSE IF token.kind = "Symbol" THEN "[SYMBOL]"
    ELSE IF token.kind = "Name" THEN "[NAME]"
    ELSE IF token.kind = "EOL" THEN "[EOL]"
    ELSE "logic_error"

\* Mutant of trace_line: the [EOL] line prints its lexeme like the others.
trace_line_always_word(token, word) == <<token_type(token), " ">> \o word

\* scan_tokens, lines 218-223: the line printed for a token.
trace_line(token, word) ==
    IF token.kind = "EOL" THEN <<token_type(token)>>
    ELSE <<token_type(token), " ">> \o word

\* scan_tokens, line 196: whether the driver traces and keeps the token.
is_kept(token) == token.kind # "Comment"

\* Mutant of push_eof: the EndOfFile token is forgotten.
push_eof_forgotten(list) == list

\* scan_tokens, line 227.
push_eof(list) == Append(list, TokenEOF)

NoLocals ==
    /\ str_tag' = NUL /\ string' = <<>>
    /\ hex' = FALSE /\ floating' = FALSE /\ science' = FALSE
    /\ signed_power' = FALSE /\ number_power' = FALSE

\* Mutant of Throw: the error is recorded and the driver loop goes on.
Throw_and_resume(e, s, c) ==
    /\ pc' = "scan_tokens" /\ err' = e
    /\ start' = s /\ current' = c
    /\ UNCHANGED <<source, token_list, trace>>
    /\ NoLocals

\* An exception leaves the scan: nothing in main or scan_tokens catches it.
Throw(e, s, c) ==
    /\ pc' = "error" /\ err' = e
    /\ start' = s /\ current' = c
    /\ UNCHANGED <<source, token_list, trace>>
    /\ NoLocals

\* scan_token has returned `token` with lexeme [s, c): the rest of the loop body.
Return(token, s, c) ==
    IF is_kept(token)
    THEN IF token_type(token) = "logic_error"
         THEN Throw("logic_error", s, c)
         ELSE /\ trace' = Append(trace, trace_line(token, extract_word(s, c)))
              /\ token_list' = Append(token_list, token)
              /\ start' = s /\ current' = c
              /\ pc' = "scan_tokens"
              /\ UNCHANGED <<source, err>>
              /\ NoLocals
    ELSE /\ start' = s /\ current' = c
         /\ pc' = "scan_tokens"
         /\ UNCHANGED <<source, err, token_list, trace>>
         /\ NoLocals

\* scan_token calls a sub-scanner whose loop runs in the following steps.
Enter(scanner, s, c) ==
    /\ pc' = scanner
    /\ start' = s /\ current' = c
    /\ UNCHANGED <<source, err, token_list, trace>>

(***************************************************************************)
(* Entries of the sub-scanners (the code before their loops).              *)
(***************************************************************************)
\* scan_number, lines 316-326, entered with cursor c.
EnterNumber(s, c) ==
    LET is_hex == previous(c) = "0" /\ (match_char(c, "x") \/ match_char(c, "X"))
        c2     == IF previous(c) = "0"
                  THEN (IF match_char(c, "x") THEN matched(c, "x") ELSE matched(c, "X"))
                  ELSE c
    IN  /\ Enter("scan_number", s, c2)
        /\ hex' = is_hex
        /\ floating' = (previous(c2) = ".")
        /\ science' = FALSE /\ signed_power' = FALSE /\ number_power' = FALSE
        /\ str_tag' = NUL /\ string' = <<>>

\* scan_string, lines 371-372.
EnterString(s, c) ==
    /\ Enter("scan_string", s, c)
    /\ str_tag' = previous(c) /\ string' = <<>>
    /\ UNCHANGED <<hex, floating, science, signed_power, number_power>>

EnterName(s, c) ==
    /\ Enter("scan_name", s, c)
    /\ UNCHANGED <<str_tag, string, hex, floating, science, signed_power, number_power>>

EnterComment(s, c) ==
    /\ Enter("scan_comment", s, c)
    /\ UNCHANGED <<str_tag, string, hex, floating, science, signed_power, number_power>>

\* Mutant of name_token: a reserved word matches as a prefix of the word.
name_token_by_prefix(word) ==
    IF \E n \in 1..Len(word) : SubSeq(word, 1, n) \in DOMAIN reserved_words
    THEN TokenReserved(reserved_words[
             CHOOSE w \in DOMAIN reserved_words :
                 \E n \in 1..Len(word) : SubSeq(word, 1, n) = w])
    ELSE TokenString(word)

\* scan_name, lines 388-393: the token for the scanned word.
name_token(word) ==
    IF word \in DOMAIN reserved_table
    THEN TokenReserved(reserved_table[word])
    ELSE TokenString(word)

\* Program.cs lines 20-42: the same 21 words with the same values.
reservedWords == reserved_words

\* ScanName, Program.cs lines 223-228: the token for the scanned word.
ScanName_token(word) ==
    IF word \in DOMAIN reservedWords
    THEN TokenReserved(reservedWords[word])
    ELSE TokenName(word)

\* Mutant of table_after_lookup: operator[] is used without the contains()
\* guard and inserts the default ReservedWord for a word it does not hold.
table_after_unguarded_lookup(table, word) ==
    IF word \in DOMAIN table THEN table ELSE (word :> "And") @@ table

\* scan_name, lines 389-390: the static map after the lookup of word;
\* operator[] runs only for a word contains() found, so nothing is inserted.
table_after_lookup(table, word) == table

\* Mutant of parse_escape: an unknown escape stands for the character itself.
parse_escape_lenient(ch) ==
    IF ch = "n" THEN "\n" ELSE ch

\* parse_escape, lines 397-403: the decoded character, or NUL where it throws.
parse_escape(ch) ==
    IF ch = "\\" THEN "\\"
    ELSE IF ch = "n" THEN "\n"
    ELSE IF ch = "'" THEN "'"
    ELSE IF ch = "\"" THEN "\""
    ELSE NUL

\* Mutant of point_rejected: only a hexadecimal literal rejects a '.'.
point_rejected_in_hex_only(is_hex, is_floating) == is_hex

\* scan_number, line 345: a '.' that is an error instead of a decimal point.
point_rejected(is_hex, is_floating) == is_hex \/ is_floating

\* Mutant of closes_string: either quote ends the string.
closes_on_any_quote(ch, tag) == ch \in {"'", "\""}

\* scan_string, line 373: the character that ends the string opened by tag.
closes_string(ch, tag) == ch = tag

(***************************************************************************)
(* The steps.                                                              *)
(***************************************************************************)
\* scan_tokens, line 193, and scan_token, lines 231-306: one iteration of the
\* driver loop, up to scan_token's return or the entry of a sub-scanner's loop.
ScanToken ==
    /\ pc = "scan_tokens"
    /\ ~is_at_end(current)
    /\ UNCHANGED <<reserved_table, run, first_run, impl>>
    /\ LET w  == skip_whitespace(current)
           s  == align_pointer(w)
           ch == advance(w)
           c  == advanced(w)
       IN  IF ch = "\n" THEN Return(TokenEOL, s, c)
           ELSE IF ch = "-" THEN
               IF match_char(c, "-")
               THEN EnterComment(s, matched(c, "-"))
               ELSE Return(TokenSymbol("Minus"), s, c)
           ELSE IF ch \in DOMAIN equal_symbols THEN
               IF match_char(c, "=")
               THEN Return(TokenSymbol(equal_symbols[ch][1]), s, matched(c, "="))
               ELSE Return(TokenSymbol(equal_symbols[ch][2]), s, c)
           ELSE IF ch = "~" THEN
               IF match_char(c, "=")
               THEN Return(TokenSymbol("NotEqual"), s, matched(c, "="))
               ELSE Throw("Invalid token.", s, c)
           ELSE IF ch \in DOMAIN single_symbols THEN
               Return(TokenSymbol(single_symbols[ch]), s, c)
           ELSE IF ch = "." THEN
               IF isdigit(peek(c)) THEN EnterNumber(s, c)
               ELSE IF match_char(c, ".") THEN
                   IF match_char(matched(c, "."), ".")
                   THEN Return(TokenSymbol("Ellipsis"), s, matched(matched(c, "."), "."))
                   ELSE Return(TokenSymbol("Concat"), s, matched(c, "."))
               ELSE Return(TokenSymbol("Dot"), s, c)
           ELSE IF ch = "\"" \/ ch = "'" THEN EnterString(s, c)
           ELSE IF isdigit(previous(c)) THEN EnterNumber(s, c)
           ELSE IF is_name_char(previous(c), TRUE) THEN EnterName(s, c)
           ELSE Throw("Invalid token.", s, c)

\* scan_comment, lines 310-312: one iteration, or the return to the driver loop.
ScanComment ==
    /\ pc = "scan_comment"
    /\ UNCHANGED <<reserved_table, run, first_run, impl>>
    /\ IF peek(current) # "\n"
       THEN /\ current' = advanced(current)
            /\ UNCHANGED <<source, start, token_list, trace, pc, err, str_tag, string,
                           hex, floating, science, signed_power, number_power>>
       ELSE Return(TokenComment, start, current)

\* Mutant of sign_accepted: a sign is also taken after the exponent's digits.
sign_accepted_after_digits(ch, is_science, is_signed, has_power) ==
    (ch = "-" \/ ch = "+") /\ is_science /\ ~is_signed

\* scan_number, line 351: whether ch is consumed as the sign of the exponent.
sign_accepted(ch, is_science, is_signed, has_power) ==
    (ch = "-" \/ ch = "+") /\ is_science /\ ~is_signed /\ ~has_power

\* scan_number, lines 327-367: one iteration, or the conversion and the return.
ScanNumber ==
    /\ pc = "scan_number"
    /\ UNCHANGED <<reserved_table, run, first_run, impl>>
    /\ LET ch   == peek(current)
           step == /\ current' = advanced(current)
                   /\ UNCHANGED <<source, start, token_list, trace, pc, err,
                                  str_tag, string>>
       IN  IF isdigit(ch) THEN
               /\ step
               /\ number_power' = (IF science THEN TRUE ELSE number_power)
               /\ UNCHANGED <<hex, floating, science, signed_power>>
           ELSE IF ~hex /\ (ch = "e" \/ ch = "E") THEN
               /\ step
               /\ floating' = TRUE /\ science' = TRUE
               /\ UNCHANGED <<hex, signed_power, number_power>>
           ELSE IF is_hex_letter(ch) THEN
               IF hex
               THEN step /\ UNCHANGED <<hex, floating, science, signed_power, number_power>>
               ELSE Throw("Invalid number.", start, current)
           ELSE IF ch = "." THEN
               IF point_rejected(hex, floating)
               THEN Throw("Invalid number.", start, current)
               ELSE /\ step
                    /\ floating' = TRUE
                    /\ UNCHANGED <<hex, science, signed_power, number_power>>
           ELSE IF sign_accepted(ch, science, signed_power, number_power) THEN
               /\ step
               /\ signed_power' = TRUE
               /\ UNCHANGED <<hex, floating, science, number_power>>
           ELSE
               LET word == extract_word(start, current)
                   r    == IF impl = "cpp" THEN number_value(word, floating, hex)
                           ELSE ScanNumber_value(word, floating, hex)
               IN  IF r.ok
                   THEN Return(TokenNumber(r.value), start, current)
                   ELSE Throw(r.value, start, current)

\* scan_string, lines 373-381: one iteration, or the closing quote and the return.
ScanString ==
    /\ pc = "scan_string"
    /\ UNCHANGED <<reserved_table, run, first_run, impl>>
    /\ IF ~closes_string(peek(current), str_tag)
       THEN LET esc == match_char(current, "\\")
                c   == matched(current, "\\")
                ch  == IF esc THEN parse_escape(advance(c)) ELSE advance(current)
                c2  == IF esc THEN advanced(c) ELSE advanced(current)
            IN  IF esc /\ ch = NUL THEN Throw("Invalid escape char.", start, c2)
                ELSE IF Len(string) >= MaxStr THEN Throw("bad_alloc", start, c2)
                ELSE /\ string' = Append(string, ch)
                     /\ current' = c2
                     /\ UNCHANGED <<source, start, token_list, trace, pc, err, str_tag,
                                    hex, floating, science, signed_power, number_power>>
       ELSE Return(TokenString(string), start, advanced(current))

\* scan_name, lines 385-393: one iteration, or the table lookup and the return.
ScanName ==
    /\ pc = "scan_name"
    /\ UNCHANGED <<run, first_run, impl>>
    /\ IF is_name_char(peek(current), FALSE)
       THEN /\ current' = advanced(current)
            /\ UNCHANGED <<source, start, token_list, trace, pc, err, str_tag, string,
                           hex, floating, science, signed_power, number_power,
                           reserved_table>>
       ELSE LET word == extract_word(start, current)
            IN  IF impl = "cpp"
                THEN /\ Return(name_token(word), start, current)
                     /\ reserved_table' = table_after_lookup(reserved_table, word)
                ELSE /\ Return(ScanName_token(word), start, current)
                     /\ reserved_table' = reserved_table

\* scan_tokens, lines 193 and 227: the loop ends and EndOfFile is pushed.
Finish ==
    /\ pc = "scan_tokens"
    /\ is_at_end(current)
    /\ token_list' = push_eof(token_list)
    /\ pc' = "done"
    /\ UNCHANGED <<source, current, start, trace, err, str_tag, string,
                   hex, floating, science, signed_power, number_power,
                   reserved_table, run, first_run, impl>>

Next ==
    \/ ScanToken
    \/ ScanComment
    \/ ScanNumber
    \/ ScanString
    \/ ScanName
    \/ Finish

\* What the Lexer that ran has produced, and where it stopped.
Result ==
    [tokens |-> token_list, lines |-> trace, pc |-> pc, err |-> err,
     current |-> current]

\* A second Lexer is constructed (line 190) on the buffer the first one was
\* given, after the first has finished or thrown: its cursors and token list
\* are fresh, the static reserved_words map is the one the first run left.
SecondLexer ==
    /\ run = 1
    /\ pc \in {"done", "error"}
    /\ impl = "cpp"
    /\ first_run' = Result
    /\ run' = 2
    /\ current' = 0 /\ start' = 0
    /\ token_list' = <<>> /\ trace' = <<>>
    /\ pc' = "scan_tokens" /\ err' = "none"
    /\ NoLocals
    /\ UNCHANGED <<source, reserved_table, impl>>

NextTwice ==
    \/ Next
    \/ SecondLexer

\* The Lexer of Program.cs is constructed (Program.cs line 10) on the text the
\* Lexer of main.cpp was given, after that one has finished or thrown.
CSharpLexer ==
    /\ run = 1
    /\ impl = "cpp"
    /\ pc \in {"done", "error"}
    /\ first_run' = Result
    /\ run' = 2
    /\ impl' = "csharp"
    /\ current' = 0 /\ start' = 0
    /\ token_list' = <<>> /\ trace' = <<>>
    /\ pc' = "scan_tokens" /\ err' = "none"
    /\ NoLocals
    /\ UNCHANGED <<source, reserved_table>>

NextBoth ==
    \/ Next
    \/ CSharpLexer

(***************************************************************************)
(* Initial states: a fresh Lexer (line 190) on any source text of at most  *)
(* MaxLen characters of an alphabet.                                       *)
(***************************************************************************)
\* What a Lexer has produced when it has produced nothing.
NoResult ==
    [tokens |-> <<>>, lines |-> <<>>, pc |-> "none", err |-> "none", current |-> 0]

Texts(alphabet) == UNION {[1..n -> alphabet] : n \in 0..MaxLen}

InitOn(alphabet) ==
    /\ source \in Texts(alphabet)
    /\ current = 0 /\ start = 0
    /\ token_list = <<>> /\ trace = <<>>
    /\ pc = "scan_tokens" /\ err = "none"
    /\ str_tag = NUL /\ string = <<>>
    /\ hex = FALSE /\ floating = FALSE /\ science = FALSE
    /\ signed_power = FALSE /\ number_power = FALSE
    /\ reserved_table = reserved_words
    /\ run = 1 /\ first_run = NoResult
    /\ impl = "cpp"

\* Every kind of token, both kinds of loop that can miss the end, every error.
Alphabet == {"\n", " ", "-", "'", "\\", "1", "a", "~", "=", ".", "@"}

Init == InitOn(Alphabet)

Spec == Init /\ [][Next]_vars

\* Identifiers around the reserved words "and" and "end", with the other scanners' leads.
NameAlphabet == {"a", "n", "d", "x", "e", "A", "_", "1", "-", "'"}

SpecName == InitOn(NameAlphabet) /\ [][Next]_vars

\* Decimal, hexadecimal, fractional and exponent literals.
NumAlphabet == {"0", "1", "2", ".", "x", "e", "A", "-", "+", "'"}

SpecNum == InitOn(NumAlphabet) /\ [][Next]_vars

\* Both quotes, the escapes and a character that is no escape.
StrAlphabet == {"'", "\"", "\\", "n", "a", "\n", "-", "1"}

SpecStr == InitOn(StrAlphabet) /\ [][Next]_vars

\* Every symbol of one, two and three characters that shares a lead.
SymAlphabet == {"=", "<", ">", "-", ".", "~", "1", "a", "'"}

SpecSym == InitOn(SymAlphabet) /\ [][Next]_vars

\* Two Lexer instances, one after the other, on the same source text.
SpecTwice == InitOn(NameAlphabet) /\ [][NextTwice]_vars

\* Words, a reserved word and numbers with and without an exponent.
BothAlphabet == {"a", "n", "d", "1", "e", ".", "0", "x", "-", "'"}

\* The Lexer of main.cpp, then the Lexer of Program.cs, on the same source text.
SpecBoth == InitOn(BothAlphabet) /\ [][NextBoth]_vars

\* The program is one thread that runs until it returns or throws.
FairSpec == Init /\ [][Next]_vars /\ WF_vars(Next)

(***************************************************************************)
(* Vocabulary of the properties.                                           *)
(***************************************************************************)
Kinds(list) == {list[i].kind : i \in 1..Len(list)}

CountKind(list, k) == Cardinality({i \in 1..Len(list) : list[i].kind = k})

\* The lexeme [start, current) of the scan that ran last.
Lexeme == extract_word(start, current)

LexicalErrors == {"Invalid token.", "Invalid number.", "Invalid escape char."}

IdentStart == Range(LowerLetters) \cup Range(UpperLetters) \cup {"_"}

IdentChar == IdentStart \cup Range(DigitChars)

\* scan_token has just returned from the name scanner: the driver is back at
\* the head of its loop and the lexeme begins as an identifier does.
NameScanned ==
    /\ pc = "scan_tokens"
    /\ start < current
    /\ source[start + 1] \in IdentStart

(***************************************************************************)
(* C1.  When scan_tokens finishes, token_list ends with an EndOfFile       *)
(* token, holds exactly one EndOfFile and no Comment; in every state       *)
(* before that it holds neither a Comment nor an EndOfFile.                *)
(***************************************************************************)
C1_OutputShape ==
    /\ "Comment" \notin Kinds(token_list)
    /\ pc = "done" =>
          /\ Len(token_list) >= 1
          /\ token_list[Len(token_list)].kind = "EOF"
          /\ CountKind(token_list, "EOF") = 1
    /\ pc # "done" => "EOF" \notin Kinds(token_list)

\* A finished scan of a text that begins with a comment and holds a newline.
C1_Witness ==
    /\ pc = "done"
    /\ Len(source) >= 3
    /\ SubSeq(source, 1, 2) = <<"-", "-">>
    /\ Len(token_list) >= 2

(***************************************************************************)
(* C2.  On every finite source text scan_tokens eventually completes       *)
(* (EndOfFile appended) or stops with a fatal lexical error.               *)
(***************************************************************************)
C2_Terminates == <>(pc = "done" \/ (pc = "error" /\ err \in LexicalErrors))

\* The same, as the states a terminating scan never sits in: the scan has
\* ended as the claim says, or a step that changes the state is possible.
C2_NeverStuck ==
    \/ pc = "done"
    \/ pc = "error" /\ err \in LexicalErrors
    \/ ENABLED <<Next>>_vars

(***************************************************************************)
(* C3.  The name scanner yields Reserved(word) when the lexeme is in the   *)
(* reserved-word table and otherwise a token of kind Name that carries the *)
(* lexeme and is traced with the label [NAME].                             *)
(***************************************************************************)
C3_NameOrReserved ==
    NameScanned =>
        LET tok  == token_list[Len(token_list)]
            line == trace[Len(trace)]
        IN  /\ Len(token_list) >= 1
            /\ IF Lexeme \in DOMAIN reserved_words
               THEN tok.kind = "Reserved" /\ tok.value = reserved_words[Lexeme]
               ELSE tok.kind = "Name" /\ tok.value = Lexeme /\ line[1] = "[NAME]"

(***************************************************************************)
(* C4.  The name scanner consumes the maximal run of letters, digits and   *)
(* underscores from the lexeme start, and the token is Reserved if and     *)
(* only if that whole run is, case-sensitively, one of the 21 reserved     *)
(* words.                                                                  *)
(***************************************************************************)
C4_LongestMatch ==
    NameScanned =>
        LET tok == token_list[Len(token_list)]
        IN  /\ \A i \in start + 1 .. current : source[i] \in IdentChar
            /\ current < Len(source) => source[current + 1] \notin IdentChar
            /\ Cardinality(DOMAIN reserved_words) = 21
            /\ tok.kind = "Reserved" <=> Lexeme \in DOMAIN reserved_words
            /\ tok.kind = "Reserved" => tok.value = reserved_words[Lexeme]

\* andx, which the reserved word and is a proper prefix of, is not Reserved.
C4_Witness ==
    /\ NameScanned
    /\ token_list[Len(token_list)].kind # "Reserved"
    /\ Lexeme = <<"a", "n", "d", "x">>

(***************************************************************************)
(* C5.  As claimed: the input 1..2 raises no error and gives Number(1),    *)
(* Symbol(Concat), Number(2), EndOfFile.                                   *)
(***************************************************************************)
C5_ConcatAfterNumber ==
    source = <<"1", ".", ".", "2">> =>
        /\ err = "none"
        /\ pc = "done" =>
              /\ Len(token_list) = 4
              /\ token_list[1].kind = "Number" /\ token_list[1].value = canonical(1, 0)
              /\ token_list[2].kind = "Symbol" /\ token_list[2].value = "Concat"
              /\ token_list[3].kind = "Number" /\ token_list[3].value = canonical(2, 0)
              /\ token_list[4].kind = "EOF"

RECURSIVE LeadingDigits(_)
LeadingDigits(s) ==
    IF s # <<>> /\ Head(s) \in Range(DigitChars) THEN 1 + LeadingDigits(Tail(s)) ELSE 0

\* The source begins with a run of n >= 1 decimal digits and two dots.
DigitsThenTwoDots(n) ==
    /\ n >= 1
    /\ Len(source) >= n + 2
    /\ source[n + 1] = "." /\ source[n + 2] = "."

(***************************************************************************)
(* C5, amended.  On a decimal digit run immediately followed by two dots   *)
(* (such as 1..2) the number scan consumes the first dot as the decimal    *)
(* point and raises the fatal InvalidNumber error at the second: no token  *)
(* is produced and the scan does not complete.                             *)
(***************************************************************************)
C5_SecondDotRejected ==
    LET n == LeadingDigits(source)
    IN  DigitsThenTwoDots(n) =>
            /\ token_list = <<>> /\ trace = <<>>
            /\ pc \in {"scan_tokens", "scan_number", "error"}
            /\ pc = "scan_tokens" => current = 0
            /\ pc = "scan_number" => current <= n + 1
            /\ pc = "error" => err = "Invalid number." /\ start = 0 /\ current = n + 1

C5_Witness ==
    /\ source = <<"1", ".", ".", "2">>
    /\ pc = "error" /\ err = "Invalid number."
    /\ current = 2

(***************************************************************************)
(* C6.  Outside string literals no newline is swallowed: every newline     *)
(* consumed so far lies inside a string lexeme or has produced exactly one *)
(* EndOfLine token; a comment ends before a newline, contributes no token, *)
(* and the token emitted next is EndOfLine.                                *)
(***************************************************************************)
Newlines(s) == Cardinality({i \in 1..Len(s) : s[i] = "\n"})

RECURSIVE SumNewlines(_)
SumNewlines(lines) ==
    IF lines = <<>> THEN 0 ELSE Newlines(Head(lines)) + SumNewlines(Tail(lines))

Quotes == {"\"", "'"}

\* The newlines consumed by a string scan that has not returned.
OpenStringNewlines ==
    IF pc \in {"scan_string", "error"} /\ start < current /\ source[start + 1] \in Quotes
    THEN Newlines(Lexeme)
    ELSE 0

\* scan_token has just returned from scan_comment: the lexeme begins with --.
CommentScanned ==
    /\ pc = "scan_tokens"
    /\ start + 2 <= current
    /\ source[start + 1] = "-" /\ source[start + 2] = "-"

C6_NewlineAccounting ==
    /\ CountKind(token_list, "EOL") + SumNewlines(trace) + OpenStringNewlines
           = Newlines(SubSeq(source, 1, current))
    /\ \A i \in 1..Len(trace) :
           Newlines(trace[i]) > 0 => trace[i][1] = "[STRING]" /\ trace[i][3] \in Quotes
    /\ CommentScanned =>
           /\ Newlines(Lexeme) = 0
           /\ current < Len(source) /\ source[current + 1] = "\n"

\* A step of scan_comment emits nothing; the step after it emits EndOfLine.
C6_CommentStep ==
    /\ pc = "scan_comment" => Len(token_list') = Len(token_list) /\ Len(trace') = Len(trace)
    /\ CommentScanned =>
           /\ Len(token_list') = Len(token_list) + 1
           /\ token_list'[Len(token_list')].kind = "EOL"
           /\ current' = current + 1

C6_Newlines == []C6_NewlineAccounting /\ [][C6_CommentStep]_vars

\* A finished scan with a newline inside a string and one outside.
C6_Witness ==
    /\ pc = "done"
    /\ CountKind(token_list, "EOL") >= 1
    /\ Newlines(source) > CountKind(token_list, "EOL")

(***************************************************************************)
(* C7.  A lexeme that begins with ~ is Symbol(NotEqual) when = follows and *)
(* the fatal InvalidToken error otherwise; a lexeme whose first character  *)
(* is no newline, symbol character, quote, digit, letter or underscore is  *)
(* the fatal InvalidToken error.                                           *)
(***************************************************************************)
SymbolChars == {"+", "-", "*", "/", "%", "^", "#", "=", ">", "<", "~", "(", ")",
                "{", "}", "[", "]", ";", ":", ",", "."}

LeadChars == {"\n"} \cup SymbolChars \cup Quotes \cup Range(DigitChars) \cup IdentStart

\* The tokens emitted by the driver loop (all but the final EndOfFile).
Emitted == IF pc = "done" THEN SubSeq(token_list, 1, Len(token_list) - 1) ELSE token_list

C7_InvalidToken ==
    start < current =>
        LET lead == source[start + 1]
        IN  /\ lead = "~" =>
                IF start + 2 <= Len(source) /\ source[start + 2] = "="
                THEN /\ pc \in {"scan_tokens", "done"} /\ err = "none"
                     /\ current = start + 2
                     /\ Len(Emitted) >= 1
                     /\ Emitted[Len(Emitted)].kind = "Symbol"
                     /\ Emitted[Len(Emitted)].value = "NotEqual"
                ELSE pc = "error" /\ err = "Invalid token." /\ current = start + 1
            /\ lead \notin LeadChars => pc = "error" /\ err = "Invalid token."

\* A bare ~ after a token, as in a~b.
C7_Witness ==
    /\ pc = "error" /\ err = "Invalid token."
    /\ 1 <= start /\ start < current
    /\ source[start + 1] = "~"
    /\ Len(token_list) >= 1

(***************************************************************************)
(* C8.  A fatal lexical error aborts the scan: the step that raises it and *)
(* every later step append nothing to token_list or the trace, the cursor  *)
(* stays where the error was raised, and no EndOfFile is appended.         *)
(***************************************************************************)
C8_Aborted == err \in LexicalErrors => pc = "error" /\ "EOF" \notin Kinds(token_list)

C8_ErrorStep ==
    /\ err' \in LexicalErrors =>
           Len(token_list') = Len(token_list) /\ Len(trace') = Len(trace)
    /\ err \in LexicalErrors =>
           current' = current /\ pc' = pc /\ err' = err

C8_ErrorAborts == []C8_Aborted /\ [][C8_ErrorStep]_vars

\* An error raised after a token was emitted and before the end of the text.
C8_Witness ==
    /\ pc = "error" /\ err \in LexicalErrors
    /\ Len(token_list) >= 1
    /\ current < Len(source)

(***************************************************************************)
(* C9.  The trace holds one line per token appended in the driver loop, in *)
(* the order of token_list, labelled by the token's kind and followed by   *)
(* the lexeme [start, current) except for [EOL]; comments and the final    *)
(* EndOfFile have no line, so a finished scan has one line less than       *)
(* tokens.                                                                 *)
(***************************************************************************)
LabelOf(kind) ==
    CASE kind = "Reserved" -> "[RESERVED]"
      [] kind = "Number"   -> "[NUMBER]"
      [] kind = "String"   -> "[STRING]"
      [] kind = "Symbol"   -> "[SYMBOL]"
      [] kind = "Name"     -> "[NAME]"
      [] kind = "EOL"      -> "[EOL]"
      [] OTHER             -> "no label"

\* scan_token has just returned a token that is no comment.
TokenScanned == pc = "scan_tokens" /\ start < current /\ ~CommentScanned

C9_TraceFollowsTokens ==
    /\ Len(trace) = Len(Emitted)
    /\ pc = "done" => Len(trace) = Len(token_list) - 1
    /\ \A i \in 1..Len(trace) :
           /\ trace[i][1] = LabelOf(token_list[i].kind)
           /\ IF token_list[i].kind = "EOL"
              THEN Len(trace[i]) = 1
              ELSE Len(trace[i]) >= 3 /\ trace[i][2] = " "
    /\ TokenScanned =>
           /\ Len(trace) >= 1
           /\ IF token_list[Len(token_list)].kind = "EOL"
              THEN Lexeme = <<"\n">>
              ELSE SubSeq(trace[Len(trace)], 3, Len(trace[Len(trace)])) = Lexeme

\* A finished scan of a comment, a newline and one more token.
C9_Witness ==
    /\ pc = "done"
    /\ Len(token_list) = 3 /\ Len(trace) = 2
    /\ Len(source) >= 2 /\ SubSeq(source, 1, 2) = <<"-", "-">>
    /\ token_list[1].kind = "EOL"

(***************************************************************************)
(* C10.  A string scan opened by a quote q ends at the first later q that  *)
(* is not part of a backslash escape and at nothing else (the other quote  *)
(* is content); the String token's value is the escape-decoded text        *)
(* between the two delimiters and the cursor ends just past the closing    *)
(* quote.                                                                  *)
(***************************************************************************)
\* The index of the first q at or after i that no backslash escapes; 0 if none.
RECURSIVE FirstClosing(_, _)
FirstClosing(i, q) ==
    IF i > Len(source) THEN 0
    ELSE IF source[i] = "\\" THEN FirstClosing(i + 2, q)
    ELSE IF source[i] = q THEN i
    ELSE FirstClosing(i + 1, q)

Unescaped(ch) == IF ch = "n" THEN "\n" ELSE ch

RECURSIVE Decoded(_)
Decoded(s) ==
    IF s = <<>> THEN <<>>
    ELSE IF Head(s) = "\\" /\ Len(s) >= 2
         THEN <<Unescaped(s[2])>> \o Decoded(SubSeq(s, 3, Len(s)))
         ELSE <<Head(s)>> \o Decoded(Tail(s))

\* scan_token has just returned from scan_string: the lexeme begins with a quote.
StringScanned == pc = "scan_tokens" /\ start < current /\ source[start + 1] \in Quotes

C10_StringScan ==
    /\ StringScanned =>
           LET close == FirstClosing(start + 2, source[start + 1])
               tok   == token_list[Len(token_list)]
           IN  /\ close # 0 /\ current = close
               /\ Len(token_list) >= 1
               /\ tok.kind = "String"
               /\ tok.value = Decoded(SubSeq(source, start + 2, close - 1))
    /\ pc = "scan_string" =>
           LET close == FirstClosing(start + 2, str_tag)
           IN  /\ str_tag = source[start + 1]
               /\ close = 0 \/ close > current

\* A string whose text holds a quote: the other quote, or an escaped one.
C10_Witness ==
    /\ StringScanned
    /\ \E i \in start + 2 .. current - 1 : source[i] \in Quotes

(***************************************************************************)
(* C11.  A scan is deterministic and leaves what it shares untouched: no   *)
(* step of a scan changes the source text or the static reserved-word      *)
(* table, and a second Lexer run on the same buffer after the first ends   *)
(* with the same token list, the same trace and the same outcome (the same *)
(* error, or none).                                                        *)
(***************************************************************************)
SameTokens(a, b) ==
    /\ Len(a) = Len(b)
    /\ \A i \in 1..Len(a) : a[i].kind = b[i].kind /\ a[i].value = b[i].value

C11_SameOutput ==
    (run = 2 /\ pc \in {"done", "error"}) =>
        /\ pc = first_run.pc
        /\ err = first_run.err
        /\ trace = first_run.lines
        /\ SameTokens(token_list, first_run.tokens)

C11_SharedStep ==
    /\ source' = source
    /\ reserved_table' = reserved_table

C11_Deterministic == []C11_SameOutput /\ [][C11_SharedStep]_vars

\* The second run has ended on a source that looks the same word up twice
\* (such as x-x), a word the table does not hold.
C11_Witness ==
    /\ run = 2
    /\ pc = "done"
    /\ Len(source) = 3
    /\ source[1] = source[3]
    /\ source[1] \in IdentStart
    /\ source[2] = "-"
    /\ <<source[1]>> \notin DOMAIN reserved_words
    /\ Len(token_list) = 4
    /\ SameTokens(token_list, first_run.tokens)

(***************************************************************************)
(* C12.  A number lexeme of decimal digits only has the base-10 integer it *)
(* spells as its value; 0x or 0X followed by hexadecimal digits has the    *)
(* base-16 value of the digits after the prefix (0x1A is 26).  The number  *)
(* scan is in hexadecimal mode only when the lexeme begins with 0          *)
(* immediately followed by x or X, and in that mode e and E are digits:    *)
(* no exponent is ever seen.                                               *)
(***************************************************************************)
HexDigitsLower == <<"0","1","2","3","4","5","6","7","8","9","a","b","c","d","e","f">>

HexDigitsUpper == <<"0","1","2","3","4","5","6","7","8","9","A","B","C","D","E","F">>

PlaceValue(ch) == CHOOSE v \in 0..15 : ch \in {HexDigitsLower[v + 1], HexDigitsUpper[v + 1]}

\* The integer the digit string w spells in the base.
RECURSIVE Numeral(_, _)
Numeral(w, base) ==
    IF w = <<>> THEN 0
    ELSE Numeral(SubSeq(w, 1, Len(w) - 1), base) * base + PlaceValue(w[Len(w)])

DecimalLexeme ==
    /\ start < current
    /\ \A i \in start + 1..current : source[i] \in Range(DigitChars)

HexPrefixed ==
    /\ start + 2 <= current
    /\ source[start + 1] = "0"
    /\ source[start + 2] \in {"x", "X"}

HexLexeme ==
    /\ HexPrefixed
    /\ start + 3 <= current
    /\ \A i \in start + 3..current :
           source[i] \in Range(HexDigitsLower) \cup Range(HexDigitsUpper)

\* The last token is a Number of the integer value n.
LastIsInteger(n) ==
    /\ token_list # <<>>
    /\ token_list[Len(token_list)].kind = "Number"
    /\ token_list[Len(token_list)].value.e >= 0
    /\ LET v == token_list[Len(token_list)].value
           RECURSIVE Scaled(_, _)
           Scaled(m, e) == IF e = 0 THEN m ELSE Scaled(m * 10, e - 1)
       IN  Scaled(v.m, v.e) = n

C13_CommentStep ==
    /\ pc = "scan_comment"
    /\ pc' = "scan_tokens"
    /\ current' = current

C13_ReturnsAtEnd ==
    (pc = "scan_comment" /\ is_at_end(current)) => ENABLED (Next /\ C13_CommentStep)

(***************************************************************************)
(* C14.  In every reachable state 0 <= start <= current <= length of the   *)
(* source, and no step of a scan decreases either cursor.  At the end of   *)
(* the input advance() returns NUL and leaves the cursor where it is;      *)
(* before it, advance() returns the next character and moves by one.       *)
(* match_char(target) moves the cursor by exactly one when the next        *)
(* character is the target and leaves it unchanged otherwise; peek()       *)
(* returns the next character, or NUL at the end.                          *)
(***************************************************************************)
Positions == 0..Len(source)

Targets == {"-", "=", ".", "x", "X", "\\", "'", "1", "a", NUL}

C14_Cursors ==
    /\ 0 <= start
    /\ start <= current
    /\ current <= Len(source)

C14_Primitives ==
    \A c \in Positions :
        /\ c = Len(source) => advance(c) = NUL /\ advanced(c) = c /\ peek(c) = NUL
        /\ c < Len(source) =>
               /\ advance(c) = source[c + 1]
               /\ advanced(c) = c + 1
               /\ peek(c) = source[c + 1]
        /\ \A target \in Targets :
               IF c < Len(source) /\ source[c + 1] = target
               THEN match_char(c, target) /\ matched(c, target) = c + 1
               ELSE ~match_char(c, target) /\ matched(c, target) = c

C14_CursorStep ==
    /\ start' >= start
    /\ current' >= current

C14_CursorsInBounds == [](C14_Cursors /\ C14_Primitives) /\ [][C14_CursorStep]_vars

\* An unterminated string: advance() has been called at the end of the input.
C14_Witness ==
    /\ pc = "scan_string"
    /\ current = Len(source)
    /\ string # <<>>
    /\ string[Len(string)] = NUL

(***************************************************************************)
(* C15.  Every token appended to the list, other than EndOfFile, has a     *)
(* non-empty lexeme (start < current when it is appended and traced), and  *)
(* every call of scan_token by the driver loop consumes at least one       *)
(* character of the source: the cursor is further on when the call's first *)
(* step is over, and a sub-scanner is entered with a non-empty lexeme.     *)
(***************************************************************************)
SubScanners == {"scan_comment", "scan_number", "scan_string", "scan_name"}

C15_InScanner == pc \in SubScanners => start < current

C15_TokenStep ==
    /\ (pc = "scan_tokens" /\ pc' # "done") => current < current' /\ current <= start'
    /\ (Len(token_list') > Len(token_list) /\ pc' # "done") => start' < current'
    /\ Len(trace') > Len(trace) => start' < current'

C15_Progress == []C15_InScanner /\ [][C15_TokenStep]_vars

\* A second token has been appended after the blank that follows the first.
C15_Witness ==
    /\ pc = "scan_tokens"
    /\ Len(token_list) = 2
    /\ 2 <= start
    /\ start < current
    /\ source[start] = " "

(***************************************************************************)
(* C16.  Symbols are dispatched by maximal munch.  A lexeme led by =, > or *)
(* < is Equal, GreaterEqual or LessEqual (two characters) when = follows   *)
(* the lead, and Assign, Greater or Less (one character) otherwise.  A     *)
(* lead - followed by - starts a comment, otherwise it is Minus.  A lead . *)
(* followed by a digit starts a number scan; otherwise ... is Ellipsis, .. *)
(* is Concat and a lone . is Dot.  The second and third characters are     *)
(* consumed only when they are part of the symbol.                         *)
(***************************************************************************)
\* The character i places after the start of the lexeme, NUL past the end.
LexemeChar(i) == IF start + i + 1 <= Len(source) THEN source[start + i + 1] ELSE NUL

\* The scan that ran last returned the symbol `name`, n characters long.
SymbolIs(name, n) ==
    /\ pc \in {"scan_tokens", "done"}
    /\ err = "none"
    /\ current = start + n
    /\ Len(Emitted) >= 1
    /\ Emitted[Len(Emitted)].kind = "Symbol"
    /\ Emitted[Len(Emitted)].value = name

\* The scan that ran last is, or was, a number scan.
NumberScanStarted ==
    \/ pc = "scan_number"
    \/ pc = "error" /\ err \in {"Invalid number.", "invalid_argument"}
    \/ /\ pc \in {"scan_tokens", "done"}
       /\ Len(Emitted) >= 1
       /\ Emitted[Len(Emitted)].kind = "Number"

CommentStarted ==
    /\ start + 2 <= current
    /\ pc = "scan_comment" \/ CommentScanned

C16_MaximalMunch ==
    start < current =>
        /\ LexemeChar(0) = "=" =>
               IF LexemeChar(1) = "=" THEN SymbolIs("Equal", 2) ELSE SymbolIs("Assign", 1)
        /\ LexemeChar(0) = ">" =>
               IF LexemeChar(1) = "=" THEN SymbolIs("GreaterEqual", 2)
               ELSE SymbolIs("Greater", 1)
        /\ LexemeChar(0) = "<" =>
               IF LexemeChar(1) = "=" THEN SymbolIs("LessEqual", 2) ELSE SymbolIs("Less", 1)
        /\ LexemeChar(0) = "-" =>
               IF LexemeChar(1) = "-" THEN CommentStarted ELSE SymbolIs("Minus", 1)
        /\ LexemeChar(0) = "." =>
               IF LexemeChar(1) \in Range(DigitChars) THEN NumberScanStarted
               ELSE IF LexemeChar(1) = "." /\ LexemeChar(2) = "." THEN SymbolIs("Ellipsis", 3)
               ELSE IF LexemeChar(1) = "." THEN SymbolIs("Concat", 2)
               ELSE SymbolIs("Dot", 1)

\* <= has been scanned as one symbol and the lone . after it as another.
C16_Witness ==
    /\ pc = "scan_tokens"
    /\ Len(source) >= 3
    /\ SubSeq(source, 1, 3) = <<"<", "=", ".">>
    /\ Len(token_list) = 2
    /\ token_list[1] = TokenSymbol("LessEqual")
    /\ SymbolIs("Dot", 1)

(***************************************************************************)
(* C17.  Inside a string literal a backslash followed by anything other    *)
(* than a backslash, n, ' or " is the fatal InvalidEscape error, also when *)
(* the backslash is the last character of the input: the scan stops at the *)
(* first such backslash that precedes the closing quote, with the cursor   *)
(* past the character after it, and appends no token for the literal.      *)
(* InvalidEscape is raised in no other case.                               *)
(***************************************************************************)
EscapeChars == {"\\", "n", "'", "\""}

\* The index of the first backslash at or after i, before the closing q, that
\* no escape character follows; 0 if there is none.
RECURSIVE FirstBadEscape(_, _)
FirstBadEscape(i, q) ==
    IF i > Len(source) THEN 0
    ELSE IF source[i] = q THEN 0
    ELSE IF source[i] = "\\"
         THEN IF i + 1 <= Len(source) /\ source[i + 1] \in EscapeChars
              THEN FirstBadEscape(i + 2, q)
              ELSE i
    ELSE FirstBadEscape(i + 1, q)

\* The lexeme of the scan that runs, or ran last, is led by a quote.
StringLexeme == start < current /\ source[start + 1] \in Quotes

C17_Escapes ==
    /\ StringLexeme =>
           LET bad == FirstBadEscape(start + 2, source[start + 1])
           IN  bad # 0 =>
                   /\ pc \in {"scan_string", "error"}
                   /\ pc = "scan_string" => current < bad
                   /\ pc = "error" =>
                          /\ err = "Invalid escape char."
                          /\ current = (IF bad < Len(source) THEN bad + 1 ELSE bad)
    /\ err = "Invalid escape char." =>
           /\ pc = "error"
           /\ StringLexeme
           /\ FirstBadEscape(start + 2, source[start + 1]) # 0

C17_ErrorStep ==
    err' = "Invalid escape char." => token_list' = token_list /\ trace' = trace

C17_InvalidEscape == []C17_Escapes /\ [][C17_ErrorStep]_vars

\* The backslash that ends the input has raised the error.
C17_Witness ==
    /\ pc = "error"
    /\ err = "Invalid escape char."
    /\ StringLexeme
    /\ current = Len(source)
    /\ source[Len(source)] = "\\"
    /\ FirstBadEscape(start + 2, source[start + 1]) = Len(source)

(***************************************************************************)
(* C18.  The number scan consumes a + or - only when the character it      *)
(* consumed immediately before is the exponent marker e or E of a literal  *)
(* that is not hexadecimal, and at most one sign per lexeme: every sign in *)
(* a number lexeme follows a marker, a lexeme with the 0x prefix has none, *)
(* and no lexeme has two.  A + or - met anywhere else ends the number scan *)
(* with the cursor left on it.                                             *)
(***************************************************************************)
Signs == {"+", "-"}

Marks == {"e", "E"}

\* The lexeme of the scan that runs, or ran last, is a number's.
NumberLexeme ==
    /\ start < current
    /\ \/ source[start + 1] \in Range(DigitChars)
       \/ source[start + 1] = "." /\ LexemeChar(1) \in Range(DigitChars)

SignsInLexeme == {i \in start + 1..current : source[i] \in Signs}

C18_SignsInNumber ==
    NumberLexeme =>
        /\ Cardinality(SignsInLexeme) <= 1
        /\ \A i \in SignsInLexeme :
               /\ start + 1 < i
               /\ source[i - 1] \in Marks
               /\ ~HexPrefixed

C18_SignStep ==
    (pc = "scan_number" /\ peek(current) \in Signs) =>
        IF pc' = "scan_number"
        THEN /\ current' = current + 1
             /\ source[current] \in Marks
             /\ ~HexPrefixed
             /\ SignsInLexeme = {}
        ELSE current' = current

C18_ExponentSign == []C18_SignsInNumber /\ [][C18_SignStep]_vars

\* 1e-2 has been scanned as one number, the sign after its marker included.
C18_Witness ==
    /\ pc = "scan_tokens"
    /\ Lexeme = <<"1", "e", "-", "2">>
    /\ token_list # <<>>
    /\ token_list[Len(token_list)].kind = "Number"
    /\ token_list[Len(token_list)].value = [m |-> 1, e |-> 0 - 2]

(***************************************************************************)
(* C19.  The number scan raises the fatal InvalidNumber error in exactly   *)
(* two situations: the next character is . while the literal already has a *)
(* decimal point or an exponent marker (or began with .) or is             *)
(* hexadecimal; or the next character is one of a, b, c, d, f (either      *)
(* case) while the literal is not hexadecimal.  Outside hexadecimal e and  *)
(* E are consumed as the exponent marker, under hexadecimal all of a-f and *)
(* A-F are consumed as digits, and any other character that is no digit    *)
(* ends the scan there without raising InvalidNumber.  No other scan       *)
(* raises it.                                                              *)
(***************************************************************************)
HexLetters == {"a", "b", "c", "d", "e", "f", "A", "B", "C", "D", "E", "F"}

\* The lexeme so far has a decimal point or, not being hexadecimal, a marker.
SeenFloating ==
    \/ \E i \in start + 1..current : source[i] = "."
    \/ ~HexPrefixed /\ \E i \in start + 1..current : source[i] \in Marks

InvalidNumberCase(ch) ==
    \/ ch = "." /\ (SeenFloating \/ HexPrefixed)
    \/ ch \in (HexLetters \ Marks) /\ ~HexPrefixed

C19_Consumed ==
    /\ pc' = "scan_number"
    /\ current' = current + 1
    /\ err' = "none"

C19_NumberStep ==
    IF pc = "scan_number"
    THEN /\ err' = "Invalid number." <=> InvalidNumberCase(peek(current))
         /\ err' = "Invalid number." =>
                pc' = "error" /\ current' = current /\ token_list' = token_list
         /\ (peek(current) \in Marks /\ ~HexPrefixed) => C19_Consumed
         /\ (peek(current) \in HexLetters /\ HexPrefixed) => C19_Consumed
         /\ peek(current) \in Range(DigitChars) => C19_Consumed
         /\ (peek(current) = "." /\ ~InvalidNumberCase(".")) => C19_Consumed
         /\ peek(current) \notin Range(DigitChars) \cup HexLetters \cup Signs \cup {"."} =>
                pc' # "scan_number" /\ current' = current
    ELSE err' # "Invalid number."

C19_InvalidNumber == [](err = "Invalid number." => pc = "error") /\ [][C19_NumberStep]_vars

\* A capital hexadecimal letter after a decimal literal has raised the error.
C19_Witness ==
    /\ pc = "error"
    /\ err = "Invalid number."
    /\ NumberLexeme
    /\ ~HexPrefixed
    /\ peek(current) = "A"

(***************************************************************************)
(* C20.  Blanks produce no error: where the driver loop has skipped the    *)
(* spaces, tabs or carriage returns that end the input (the cursor is at   *)
(* the end, the last character is a blank and no lexeme is open), no error *)
(* has been raised and the scan goes on to append EndOfFile.               *)
(***************************************************************************)
Blanks == {" ", "\t", "\r"}

TrailingBlanksSkipped ==
    /\ Len(source) >= 1
    /\ source[Len(source)] \in Blanks
    /\ current = Len(source)
    /\ start = current

C20_TrailingBlanks ==
    TrailingBlanksSkipped => err = "none" /\ pc \in {"scan_tokens", "done"}

(***************************************************************************)
(* C21.  A number scan fails by InvalidNumber only: whenever its loop ends *)
(* without that error the digit string handed to the conversion is not     *)
(* empty (for a hexadecimal literal the part after 0x or 0X, otherwise the *)
(* lexeme has a decimal digit), so the conversion succeeds and the scan    *)
(* returns a Number token.                                                 *)
(***************************************************************************)
\* The digits the conversion of the lexeme reads first.
ConvertedDigits ==
    IF HexPrefixed THEN SubSeq(source, start + 3, current)
    ELSE SelectSeq(Lexeme, LAMBDA ch : ch \in Range(DigitChars))

C21_NumberConverts ==
    /\ (NumberLexeme /\ pc = "error") => err = "Invalid number."
    /\ (NumberLexeme /\ pc \in {"scan_tokens", "error"} /\ err # "Invalid number.") =>
           ConvertedDigits # <<>>

(***************************************************************************)
(* C22.  The C++ lexer and the C# lexer are equivalent on every source     *)
(* text: when the C# lexer, run on the text the C++ lexer was run on, has  *)
(* ended, both have emitted the same token kinds with the same payloads    *)
(* and the same trace lines, or both have stopped with the same kind of    *)
(* fatal error at the same cursor position.                                *)
(***************************************************************************)
\* The kind of a fatal error: a failed conversion of a number lexeme is one
\* kind, whatever the library's exception is called.
ErrorKind(e) ==
    IF e \in {"invalid_argument", "FormatException", "ArgumentOutOfRangeException"}
    THEN "conversion"
    ELSE e

C22_Equivalent ==
    (run = 2 /\ impl = "csharp" /\ pc \in {"done", "error"}) =>
        /\ pc = first_run.pc
        /\ ErrorKind(err) = ErrorKind(first_run.err)
        /\ pc = "error" => current = first_run.current
        /\ SameTokens(token_list, first_run.tokens)
        /\ trace = first_run.lines

(***************************************************************************)
(* C23.  is_name_char(ch, start) classifies as the dispatcher's rule       *)
(* states: for every character the scan has consumed, with start = true it *)
(* is true only of a letter or an underscore (a digit does not start an    *)
(* identifier), and with start = false it is true exactly of a letter, a   *)
(* digit or an underscore; and every lexeme of a name scan begins with a   *)
(* letter or an underscore.                                                *)
(***************************************************************************)
C23_NameChars ==
    /\ \A i \in 1..current :
           /\ is_name_char(source[i], TRUE) => source[i] \in IdentStart
           /\ is_name_char(source[i], FALSE) <=> source[i] \in IdentChar
    /\ pc = "scan_name" => source[start + 1] \in IdentStart
    /\ (TokenScanned /\ token_list # <<>>) =>
           (token_list[Len(token_list)].kind \in {"Name", "Reserved"} =>
                source[start + 1] \in IdentStart)

====
